---- MODULE Spec2Model ----
(***************************************************************************)
(* Model of the job filtering and resume-matching engine,                  *)
(* backend/app/services/job_aggregator.py (class JobAggregator).           *)
(*                                                                         *)
(* Representation.                                                         *)
(*   - a Python str is a sequence of one-character strings;                *)
(*   - a Python value is a tagged record: [t |-> "none"],                  *)
(*     [t |-> "int", v |-> n], [t |-> "str", v |-> s] or                   *)
(*     [t |-> "list", v |-> <<s1, ..., sn>>] (a list of str);              *)
(*   - a Python dict is a function from key names to values; an absent key *)
(*     is a key outside its DOMAIN;                                        *)
(*   - job dicts live in a heap indexed by object identity, a Python list  *)
(*     of jobs is a sequence of object identities;                         *)
(*   - a float score is an exact rational num/den; match_score, the result *)
(*     of round(score, 2), is kept in hundredths of a point.               *)
(***************************************************************************)
EXTENDS Integers, Sequences, FiniteSets, TLC

VARIABLES
    heap,       \* object identity -> job dict (the dicts the caller's list holds)
    heap0,      \* the heap as it was when the last call was made (history)
    jobs,       \* the caller's list: a sequence of object identities
    pc,         \* "ready", or the last call made: "filtered", "matched", ...;
                \* "raised" when it raised an exception
    filters,    \* the filters dict passed to filter_jobs
    skills,     \* resume_skills passed to match_jobs_to_resume
    years,      \* resume_experience_years passed to match_jobs_to_resume
    now,        \* what datetime.utcnow() returns during the call
    ret,        \* the returned list: a sequence of object identities
    retIsArg,   \* TRUE iff the returned list is the very list object passed in
    parts,      \* object identity -> what the scoring loop computed for it:
                \* matching_skills and the four amounts added to score (history)
    first,      \* what the call before the last one returned (history)
    workers,    \* the local variables of concurrent match_jobs_to_resume calls
    raw,        \* the argument of _normalize_adzuna_job or _extract_requirements
    out,        \* what _normalize_adzuna_job or _extract_requirements returned
    calls       \* how many calls a request handler has made on its fetched list

vars == <<heap, heap0, jobs, pc, filters, skills, years, now, ret, retIsArg,
          parts, first, workers, raw, out, calls>>

----------------------------------------------------------------------------
(* Python values *)

NoneV == [t |-> "none"]
IntV(n) == [t |-> "int", v |-> n]
StrV(s) == [t |-> "str", v |-> s]
ListV(l) == [t |-> "list", v |-> l]
DictV(d) == [t |-> "dict", v |-> d]

\* bool(x): None, 0, "" and [] are falsy.
Truthy(x) ==
    CASE x.t = "none" -> FALSE
      [] x.t = "int"  -> x.v # 0
      [] x.t = "str"  -> x.v # <<>>
      [] x.t = "list" -> x.v # <<>>
      [] x.t = "dict" -> DOMAIN x.v # {}

\* d.get(k, default)
Get(d, k, default) == IF k \in DOMAIN d THEN d[k] ELSE default

----------------------------------------------------------------------------
(* str operations *)

UpperAlpha == <<"A","B","C","D","E","F","G","H","I","J","K","L","M",
                "N","O","P","Q","R","S","T","U","V","W","X","Y","Z">>
LowerAlpha == <<"a","b","c","d","e","f","g","h","i","j","k","l","m",
                "n","o","p","q","r","s","t","u","v","w","x","y","z">>
Digits == <<"0","1","2","3","4","5","6","7","8","9">>

UpperSet == {UpperAlpha[i] : i \in 1..Len(UpperAlpha)}

\* the elements of a list: all(...) and any(...) over a generator depend
\* on the elements only
Elems(l) == {l[i] : i \in 1..Len(l)}
ToLower == [c \in UpperSet |->
               LowerAlpha[CHOOSE i \in 1..Len(UpperAlpha) : UpperAlpha[i] = c]]

LowerChar(c) == IF c \in UpperSet THEN ToLower[c] ELSE c

ToUpper == [c \in Elems(LowerAlpha) |->
               UpperAlpha[CHOOSE i \in 1..Len(LowerAlpha) : LowerAlpha[i] = c]]

UpperChar(c) == IF c \in DOMAIN ToUpper THEN ToUpper[c] ELSE c

IsAlpha(c) == c \in UpperSet \/ c \in DOMAIN ToUpper

\* as Title, but only the first character is put in upper case
Capitalize(s) ==
    [i \in 1..Len(s) |-> IF i = 1 THEN UpperChar(s[i]) ELSE LowerChar(s[i])]

\* s.title(): a letter that follows a letter is put in lower case, every
\* other letter in upper case
Title(s) ==
    [i \in 1..Len(s) |->
        IF i > 1 /\ IsAlpha(s[i - 1]) THEN LowerChar(s[i]) ELSE UpperChar(s[i])]

\* s.lower()
Lower(s) == [i \in 1..Len(s) |-> LowerChar(s[i])]

\* [x.lower() for x in l]
LowerAll(l) == [i \in 1..Len(l) |-> Lower(l[i])]

\* a in b  (substring test; "" is in every string)
Contains(b, a) ==
    \E i \in 0..(Len(b) - Len(a)) : \A n \in 1..Len(a) : b[i + n] = a[n]

\* x in l  (list membership)
InList(x, l) == x \in Elems(l)

\* f"{i}" for a non-negative int
RECURSIVE Str(_)
Str(i) == IF i < 10 THEN <<Digits[i + 1]>>
          ELSE Str(i \div 10) \o <<Digits[(i % 10) + 1]>>

IsDigit(c) == \E i \in 1..Len(Digits) : Digits[i] = c
DigitVal(c) == (CHOOSE i \in 1..Len(Digits) : Digits[i] = c) - 1

----------------------------------------------------------------------------
(* Integer and rational helpers.  A float is modelled by the exact rational *)
(* [num, den] (den > 0) of the value the code computes.                     *)

Max(a, b) == IF a >= b THEN a ELSE b

Rat(n, d) == [num |-> n, den |-> d]
RAdd(a, b) == [num |-> a.num * b.den + b.num * a.den, den |-> a.den * b.den]
REq(a, b) == a.num * b.den = b.num * a.den

\* n/d rounded to the nearest integer, ties to the even one (n >= 0, d > 0)
RoundHalfEven(n, d) ==
    LET q == n \div d
        r == n % d
    IN  IF 2 * r < d THEN q
        ELSE IF 2 * r > d THEN q + 1
        ELSE IF q % 2 = 0 THEN q ELSE q + 1

\* round(score, 2), in hundredths
Round2(score) == RoundHalfEven(100 * score.num, score.den)

----------------------------------------------------------------------------
(* datetime: the proleptic Gregorian ordinal of a date, and the parser      *)
(* datetime.fromisoformat on the forms YYYY-MM-DD, YYYY-MM-DDTHH:MM:SS and  *)
(* YYYY-MM-DDTHH:MM:SS+HH:MM; every other string raises ValueError.         *)

IsLeap(y) == y % 4 = 0 /\ (y % 100 # 0 \/ y % 400 = 0)

DaysInMonth(y, m) ==
    IF m = 2 THEN (IF IsLeap(y) THEN 29 ELSE 28)
    ELSE IF m \in {4, 6, 9, 11} THEN 30 ELSE 31

DaysBeforeYear(y) ==
    LET p == y - 1 IN p * 365 + p \div 4 - p \div 100 + p \div 400

RECURSIVE DaysBeforeMonth(_, _)
DaysBeforeMonth(y, m) ==
    IF m = 1 THEN 0 ELSE DaysBeforeMonth(y, m - 1) + DaysInMonth(y, m - 1)

Ordinal(y, m, d) == DaysBeforeYear(y) + DaysBeforeMonth(y, m) + d

AllDigits(s, a, b) == \A i \in a..b : IsDigit(s[i])

RECURSIVE Num(_, _, _)
Num(s, a, b) == IF a > b THEN 0 ELSE 10 * Num(s, a, b - 1) + DigitVal(s[b])

\* posted_date.replace("Z", "+00:00")
RECURSIVE ReplaceZ(_)
ReplaceZ(s) ==
    IF s = <<>> THEN <<>>
    ELSE (IF Head(s) = "Z" THEN <<"+","0","0",":","0","0">> ELSE <<Head(s)>>)
         \o ReplaceZ(Tail(s))

DatePartOk(s) ==
    /\ AllDigits(s, 1, 4) /\ s[5] = "-" /\ AllDigits(s, 6, 7)
    /\ s[8] = "-" /\ AllDigits(s, 9, 10)
    /\ Num(s, 1, 4) >= 1
    /\ Num(s, 6, 7) \in 1..12
    /\ Num(s, 9, 10) >= 1
    /\ Num(s, 9, 10) <= DaysInMonth(Num(s, 1, 4), Num(s, 6, 7))

TimePartOk(s) ==
    /\ AllDigits(s, 12, 13) /\ s[14] = ":" /\ AllDigits(s, 15, 16)
    /\ s[17] = ":" /\ AllDigits(s, 18, 19)
    /\ Num(s, 12, 13) <= 23 /\ Num(s, 15, 16) <= 59 /\ Num(s, 18, 19) <= 59

OffsetPartOk(s) ==
    /\ s[20] \in {"+", "-"}
    /\ AllDigits(s, 21, 22) /\ s[23] = ":" /\ AllDigits(s, 24, 25)
    /\ Num(s, 21, 22) <= 23 /\ Num(s, 24, 25) <= 59

\* TRUE iff datetime.fromisoformat(s) returns (does not raise)
IsoParses(s) ==
    \/ Len(s) = 10 /\ DatePartOk(s)
    \/ Len(s) = 19 /\ DatePartOk(s) /\ TimePartOk(s)
    \/ Len(s) = 25 /\ DatePartOk(s) /\ TimePartOk(s) /\ OffsetPartOk(s)

\* datetime.fromisoformat(s).replace(tzinfo=None), for a string that parses:
\* the wall-clock fields, the offset dropped
FromIso(s) ==
    [ord |-> Ordinal(Num(s, 1, 4), Num(s, 6, 7), Num(s, 9, 10)),
     sec |-> IF Len(s) = 10 THEN 0
             ELSE 3600 * Num(s, 12, 13) + 60 * Num(s, 15, 16) + Num(s, 18, 19)]

\* (a - b).days for two naive datetimes: the floor of the difference in days
DaysBetween(a, b) == (a.ord - b.ord) + (IF a.sec < b.sec THEN -1 ELSE 0)

----------------------------------------------------------------------------
(* JobAggregator._extract_requirements *)

TechKeywords ==
    <<
      <<"p","y","t","h","o","n">>,
      <<"j","a","v","a","s","c","r","i","p","t">>,
      <<"j","a","v","a">>,
      <<"c","+","+">>,
      <<"c","#">>,
      <<"r","u","b","y">>,
      <<"g","o">>,
      <<"r","u","s","t">>,
      <<"r","e","a","c","t">>,
      <<"a","n","g","u","l","a","r">>,
      <<"v","u","e">>,
      <<"n","o","d","e">>,
      <<"d","j","a","n","g","o">>,
      <<"f","l","a","s","k">>,
      <<"s","p","r","i","n","g">>,
      <<"a","w","s">>,
      <<"a","z","u","r","e">>,
      <<"g","c","p">>,
      <<"k","u","b","e","r","n","e","t","e","s">>,
      <<"d","o","c","k","e","r">>,
      <<"j","e","n","k","i","n","s">>,
      <<"s","q","l">>,
      <<"m","o","n","g","o","d","b">>,
      <<"p","o","s","t","g","r","e","s","q","l">>,
      <<"m","y","s","q","l">>,
      <<"r","e","d","i","s">>,
      <<"m","a","c","h","i","n","e"," ","l","e","a","r","n","i","n","g">>,
      <<"a","i">>,
      <<"d","e","e","p"," ","l","e","a","r","n","i","n","g">>,
      <<"n","l","p">>,
      <<"r","e","s","t"," ","a","p","i">>,
      <<"g","r","a","p","h","q","l">>,
      <<"m","i","c","r","o","s","e","r","v","i","c","e","s">>,
      <<"d","e","v","o","p","s">>,
      <<"g","i","t">>,
      <<"g","i","t","h","u","b">>,
      <<"g","i","t","l","a","b">>,
      <<"a","g","i","l","e">>,
      <<"s","c","r","u","m">>
    >>

\* found_requirements after the loop: keyword.title() for each keyword, in
\* the order of tech_keywords, that is in description.lower()
TitleAll(found) == [i \in 1..Len(found) |-> Title(found[i])]

FoundRequirements(desc_lower) ==
    TitleAll(SelectSeq(TechKeywords, LAMBDA keyword : Contains(desc_lower, keyword)))

\* the lists with the elements of S, each once
Orderings(S) ==
    {l \in [1..Cardinality(S) -> S] : \A i, j \in DOMAIN l : i # j => l[i] # l[j]}

\* list(set(found_requirements)): the order of the result is any
SetToLists(found_requirements) == Orderings(Elems(found_requirements))

\* description.lower() raises AttributeError unless description is a str
ExtractRaises(description) == description.t # "str"

\* the lists _extract_requirements(description) can return
ExtractRequirements(description) ==
    SetToLists(FoundRequirements(Lower(description.v)))

----------------------------------------------------------------------------
(* JobAggregator._normalize_adzuna_job *)

\* n as a decimal numeral of w digits, zero-padded
RECURSIVE Pad(_, _)
Pad(n, w) == IF w = 0 THEN <<>> ELSE Pad(n \div 10, w - 1) \o <<Digits[(n % 10) + 1]>>

\* the year and the month an ordinal falls in
YearOf(ord) ==
    CHOOSE y \in (ord \div 366)..(ord \div 365 + 1) :
        DaysBeforeYear(y) < ord /\ ord <= DaysBeforeYear(y + 1)

MonthOf(y, ord) ==
    CHOOSE m \in 1..12 :
        /\ Ordinal(y, m, 1) <= ord
        /\ ord < Ordinal(y, m, 1) + DaysInMonth(y, m)

IsoFormatIn(y, m, t) ==
    Pad(y, 4) \o <<"-">> \o Pad(m, 2) \o <<"-">>
    \o Pad(t.ord - Ordinal(y, m, 1) + 1, 2) \o <<"T">>
    \o Pad(t.sec \div 3600, 2) \o <<":">> \o Pad((t.sec \div 60) % 60, 2)
    \o <<":">> \o Pad(t.sec % 60, 2)

IsoFormatInYear(y, t) == IsoFormatIn(y, MonthOf(y, t.ord), t)

\* datetime.isoformat() of a datetime with no microseconds:
\* YYYY-MM-DDTHH:MM:SS
IsoFormat(t) == IsoFormatInYear(YearOf(t.ord), t)

\* raw_job.get(k, {}).get("display_name", "")
DisplayName(raw_job, k) ==
    Get(Get(raw_job, k, DictV(<<>>)).v, "display_name", StrV(<<>>))

\* raw_job.get(k, {}) is not a dict: None.get raises AttributeError
DisplayNameRaises(raw_job, k) == Get(raw_job, k, DictV(<<>>)).t # "dict"

NormalizeRaises(raw_job) ==
    \/ DisplayNameRaises(raw_job, "company")
    \/ DisplayNameRaises(raw_job, "location")
    \/ ExtractRaises(Get(raw_job, "description", StrV(<<>>)))

\* as NormalizeAdzunaJob, but a missing id is left None
NormalizeIdNone(raw_job, utcnow, requirements) ==
    [id |-> Get(raw_job, "id", NoneV),
     title |-> Get(raw_job, "title", StrV(<<>>)),
     company |-> DisplayName(raw_job, "company"),
     location |-> DisplayName(raw_job, "location"),
     salary_min |-> Get(raw_job, "salary_min", NoneV),
     salary_max |-> Get(raw_job, "salary_max", NoneV),
     salary_currency |-> Get(raw_job, "salary_currency", StrV(<<"U","S","D">>)),
     description |-> Get(raw_job, "description", StrV(<<>>)),
     job_type |-> Get(raw_job, "contract_type", StrV(<<"f","u","l","l","-","t","i","m","e">>)),
     posted_date |-> Get(raw_job, "created", StrV(IsoFormat(utcnow))),
     source |-> StrV(<<"a","d","z","u","n","a">>),
     url |-> Get(raw_job, "redirect_url", StrV(<<>>)),
     requirements |-> ListV(requirements)]

\* the dict _normalize_adzuna_job(raw_job) returns when it does not raise;
\* requirements is what _extract_requirements returned
NormalizeAdzunaJob(raw_job, utcnow, requirements) ==
    [id |-> Get(raw_job, "id", StrV(<<>>)),
     title |-> Get(raw_job, "title", StrV(<<>>)),
     company |-> DisplayName(raw_job, "company"),
     location |-> DisplayName(raw_job, "location"),
     salary_min |-> Get(raw_job, "salary_min", NoneV),
     salary_max |-> Get(raw_job, "salary_max", NoneV),
     salary_currency |-> Get(raw_job, "salary_currency", StrV(<<"U","S","D">>)),
     description |-> Get(raw_job, "description", StrV(<<>>)),
     job_type |-> Get(raw_job, "contract_type", StrV(<<"f","u","l","l","-","t","i","m","e">>)),
     posted_date |-> Get(raw_job, "created", StrV(IsoFormat(utcnow))),
     source |-> StrV(<<"a","d","z","u","n","a">>),
     url |-> Get(raw_job, "redirect_url", StrV(<<>>)),
     requirements |-> ListV(requirements)]

----------------------------------------------------------------------------
(* JobAggregator.filter_jobs *)

\* as Active, but an empty list counts as a criterion
ActiveOnEmptyList(f, k) ==
    k \in DOMAIN f /\ (Truthy(f[k]) \/ f[k].t = "list")

\* "k" in filters and filters["k"]
Active(f, k) == k \in DOMAIN f /\ Truthy(f[k])

\* j.get("salary_max") is None or j["salary_max"] >= filters["min_salary"]
MinSalaryKeeps(j, f) ==
    \/ Get(j, "salary_max", NoneV) = NoneV
    \/ j["salary_max"].v >= f["min_salary"].v

\* j.get("salary_min") is None or j["salary_min"] <= filters["max_salary"]
MaxSalaryKeeps(j, f) ==
    \/ Get(j, "salary_min", NoneV) = NoneV
    \/ j["salary_min"].v <= f["max_salary"].v

\* as JobTypeKeeps, but the job's type is compared as it is written
JobTypeKeepsAsWritten(j, f) ==
    InList(Get(j, "job_type", StrV(<<>>)).v, LowerAll(f["job_types"].v))

\* j.get("job_type", "").lower() in [t.lower() for t in filters["job_types"]]
JobTypeKeeps(j, f) ==
    InList(Lower(Get(j, "job_type", StrV(<<>>)).v), LowerAll(f["job_types"].v))

\* as SkillsKeep, but one matched skill is enough
SkillsKeepAny(j, f) ==
    \E skill \in Elems(LowerAll(f["required_skills"].v)) :
        \E req \in Elems(Get(j, "requirements", ListV(<<>>)).v) :
            Contains(Lower(req), Lower(skill))

\* all(any(skill.lower() in req.lower() for req in j.get("requirements", []))
\*     for skill in [s.lower() for s in filters["required_skills"]])
SkillsKeep(j, f) ==
    \A skill \in Elems(LowerAll(f["required_skills"].v)) :
        \E req \in Elems(Get(j, "requirements", ListV(<<>>)).v) :
            Contains(Lower(req), Lower(skill))

\* as LocationKeeps, but every keyword has to match
LocationKeepsAll(j, f) ==
    \A kw \in Elems(LowerAll(f["location_keywords"].v)) :
        Contains(Lower(Get(j, "location", StrV(<<>>)).v), kw)

\* any(kw in j.get("location", "").lower()
\*     for kw in [l.lower() for l in filters["location_keywords"]])
LocationKeeps(j, f) ==
    \E kw \in Elems(LowerAll(f["location_keywords"].v)) :
        Contains(Lower(Get(j, "location", StrV(<<>>)).v), kw)

\* None.lower() raises AttributeError, and so does lower() on anything
\* that is not a str
JobTypeRaises(j) == Get(j, "job_type", StrV(<<>>)).t # "str"

\* `for req in None` raises TypeError
SkillsRaises(j) == Get(j, "requirements", ListV(<<>>)).t \in {"none", "int"}

LocationRaises(j) == Get(j, "location", StrV(<<>>)).t # "str"

\* what `filtered` is bound to after a list comprehension: a new list object
NewList(l) == [list |-> l, isArg |-> FALSE, raised |-> FALSE]

\* an exception leaves filter_jobs: nothing is returned
Raise == [list |-> <<>>, isArg |-> FALSE, raised |-> TRUE]

\* lines 169-173
MinSalaryStage(prev, h, f) ==
    IF prev.raised \/ ~Active(f, "min_salary") THEN prev
    ELSE NewList(SelectSeq(prev.list, LAMBDA o : MinSalaryKeeps(h[o], f)))

\* lines 175-179
MaxSalaryStage(prev, h, f) ==
    IF prev.raised \/ ~Active(f, "max_salary") THEN prev
    ELSE NewList(SelectSeq(prev.list, LAMBDA o : MaxSalaryKeeps(h[o], f)))

\* lines 182-187
JobTypesStage(prev, h, f) ==
    IF prev.raised \/ ~Active(f, "job_types") THEN prev
    ELSE IF \E o \in Elems(prev.list) : JobTypeRaises(h[o]) THEN Raise
    ELSE NewList(SelectSeq(prev.list, LAMBDA o : JobTypeKeeps(h[o], f)))

\* lines 190-198
SkillsStage(prev, h, f) ==
    IF prev.raised \/ ~Active(f, "required_skills") THEN prev
    ELSE IF \E o \in Elems(prev.list) : SkillsRaises(h[o]) THEN Raise
    ELSE NewList(SelectSeq(prev.list, LAMBDA o : SkillsKeep(h[o], f)))

\* lines 201-209
LocationStage(prev, h, f) ==
    IF prev.raised \/ ~Active(f, "location_keywords") THEN prev
    ELSE IF \E o \in Elems(prev.list) : LocationRaises(h[o]) THEN Raise
    ELSE NewList(SelectSeq(prev.list, LAMBDA o : LocationKeeps(h[o], f)))

\* filter_jobs(jobs, filters): the returned list and whether it is the
\* argument itself (filtered = jobs ... return filtered), or that the call
\* raised.  Each criterion block rebinds `filtered` to a new list of the
\* same dict objects.
FilterJobs(h, js, f) ==
    LET s0 == [list |-> js, isArg |-> TRUE, raised |-> FALSE]
        s1 == MinSalaryStage(s0, h, f)
        s2 == MaxSalaryStage(s1, h, f)
        s3 == JobTypesStage(s2, h, f)
        s4 == SkillsStage(s3, h, f)
        s5 == LocationStage(s4, h, f)
    IN  s5

----------------------------------------------------------------------------
(* JobAggregator.match_jobs_to_resume *)

SkillPoints == 40
ExperiencePoints == 30
RecencyPoints == 20
SalaryPoints == 10
SalaryThreshold == 50000
YearsScanLimit == 20
DaysPerPoint == 10

\* as SkillsIn, but a skill has to equal a requirement
SkillsInExact(job_requirements, resume_skills_lower) ==
    SelectSeq(resume_skills_lower, LAMBDA skill : skill \in job_requirements)

\* [skill for skill in resume_skills_lower
\*        if any(skill in req for req in job_requirements)]
SkillsIn(job_requirements, resume_skills_lower) ==
    SelectSeq(resume_skills_lower,
              LAMBDA skill : \E req \in job_requirements : Contains(req, skill))

MatchingSkills(job, resume_skills) ==
    SkillsIn(Elems(LowerAll(Get(job, "requirements", ListV(<<>>)).v)),
             LowerAll(resume_skills))

\* 1. skill matching: skill_match_ratio * 40 when the job has requirements
SkillScore(job, matching_skills) ==
    LET job_requirements == Get(job, "requirements", ListV(<<>>)).v
    IN  IF job_requirements # <<>>
        THEN Rat(Len(matching_skills) * SkillPoints, Len(job_requirements))
        ELSE Rat(0, 1)

\* f"{i}+", f"{i} years" and f"{i} year" for each i of range(0, 20)
YearsPatterns ==
    [i \in 0..(YearsScanLimit - 1) |->
        <<Str(i) \o <<"+">>,
          Str(i) \o <<" ","y","e","a","r","s">>,
          Str(i) \o <<" ","y","e","a","r">>>>]

\* f"{i}+" in description or f"{i} years" in description
\*                        or f"{i} year" in description
YearsPattern(description, i) ==
    \/ Contains(description, YearsPatterns[i][1])
    \/ Contains(description, YearsPatterns[i][2])
    \/ Contains(description, YearsPatterns[i][3])

\* for i in range(0, 20): if <pattern>: required_years = i; break
RECURSIVE ScanYears(_, _)
ScanYears(description, i) ==
    IF i >= YearsScanLimit THEN 0
    ELSE IF YearsPattern(description, i) THEN i
    ELSE ScanYears(description, i + 1)

\* as RequiredYears, but the scan starts at 1
RequiredYearsFromOne(job) ==
    ScanYears(Lower(Get(job, "description", StrV(<<>>)).v), 1)

RequiredYears(job) == ScanYears(Lower(Get(job, "description", StrV(<<>>)).v), 0)

\* 2. experience level match
ExperiencePointsFor(required_years, resume_experience_years) ==
    IF required_years > 0 /\ resume_experience_years >= required_years
    THEN Rat(ExperiencePoints, 1)
    ELSE IF required_years = 0
    THEN Rat(ExperiencePoints, 1)
    ELSE Rat(Max(0, ExperiencePoints * resume_experience_years), required_years)

ExperienceScore(job, resume_experience_years) ==
    ExperiencePointsFor(RequiredYears(job), resume_experience_years)

\* 3. job recency: nothing when posted_date is falsy, the full points when
\* parsing raises, max(0, 20 - days_old / 10) otherwise
RecencyPointsFor(posted_date, text, utcnow) ==
    IF ~Truthy(posted_date) THEN Rat(0, 1)
    ELSE IF ~IsoParses(text) THEN Rat(RecencyPoints, 1)
    ELSE Rat(Max(0, RecencyPoints * DaysPerPoint
                    - DaysBetween(utcnow, FromIso(text))),
             DaysPerPoint)

RecencyScore(job, utcnow) ==
    RecencyPointsFor(Get(job, "posted_date", StrV(<<>>)),
                     ReplaceZ(Get(job, "posted_date", StrV(<<>>)).v), utcnow)

\* as SalaryScore, but a salary_max of exactly 50000 gets the points
SalaryScoreAtLeast(job) ==
    IF Truthy(Get(job, "salary_max", NoneV)) /\ job["salary_max"].v >= SalaryThreshold
    THEN Rat(SalaryPoints, 1)
    ELSE Rat(0, 1)

\* 4. salary expectation: job.get("salary_max") and job["salary_max"] > 50000
SalaryScore(job) ==
    IF Truthy(Get(job, "salary_max", NoneV)) /\ job["salary_max"].v > SalaryThreshold
    THEN Rat(SalaryPoints, 1)
    ELSE Rat(0, 1)

\* d[k] = x on a dict
DictSet(d, k, x) == [n \in DOMAIN d \cup {k} |-> IF n = k THEN x ELSE d[n]]

\* One pass of the loop body up to line 282: matching_skills and the four
\* amounts added to score
BodyWith(job, matching_skills, resume_experience_years, utcnow) ==
    [matching_skills |-> matching_skills,
     skill |-> SkillScore(job, matching_skills),
     experience |-> ExperienceScore(job, resume_experience_years),
     recency |-> RecencyScore(job, utcnow),
     salary |-> SalaryScore(job)]

LoopBody(job, resume_skills, resume_experience_years, utcnow) ==
    BodyWith(job, MatchingSkills(job, resume_skills),
             resume_experience_years, utcnow)

\* the value of score when the loop body reaches line 284
RawScore(b) == RAdd(RAdd(b.skill, b.experience), RAdd(b.recency, b.salary))

\* as ScoreJob, but matching_skills is added to the list the dict holds
ScoreJobExtends(job, b) ==
    DictSet(DictSet(job, "match_score", IntV(Round2(RawScore(b)))),
            "matching_skills",
            ListV(Get(job, "matching_skills", ListV(<<>>)).v \o b.matching_skills))

\* job["match_score"] = round(score, 2); job["matching_skills"] = matching_skills
ScoreJob(job, b) ==
    DictSet(DictSet(job, "match_score", IntV(Round2(RawScore(b)))),
            "matching_skills", ListV(b.matching_skills))

\* as Pass, but the requirements of the job are narrowed to the matched ones
PassNarrowsRequirements(st, o, b) ==
    [heap |-> [st.heap EXCEPT ![o] = DictSet(ScoreJob(st.heap[o], b), "requirements",
                                             ListV(b.matching_skills))],
     scored_jobs |-> Append(st.scored_jobs, o),
     parts |-> DictSet(st.parts, o, b),
     raised |-> FALSE]

\* the end of one pass: the dict is written to in place (lines 284-285)
\* and the same object is appended to scored_jobs (line 286)
Pass(st, o, b) ==
    [heap |-> [st.heap EXCEPT ![o] = ScoreJob(st.heap[o], b)],
     scored_jobs |-> Append(st.scored_jobs, o),
     parts |-> DictSet(st.parts, o, b),
     raised |-> FALSE]

\* the loop body raises: `for r in None` at line 237 (TypeError), or
\* lower() on a description that is not a str at line 251 (AttributeError)
LoopBodyRaises(job) ==
    \/ Get(job, "requirements", ListV(<<>>)).t \in {"none", "int"}
    \/ Get(job, "description", StrV(<<>>)).t # "str"

\* as ScoreLoop, but a job with no requirements is passed over (`continue`)
RECURSIVE ScoreLoopSkipsUnrated(_, _, _, _, _, _)
ScoreLoopSkipsUnrated(st, js, k, resume_skills, resume_experience_years, utcnow) ==
    IF k > Len(js) THEN st
    ELSE IF LoopBodyRaises(st.heap[js[k]]) THEN [st EXCEPT !.raised = TRUE]
    ELSE IF Get(st.heap[js[k]], "requirements", ListV(<<>>)).v = <<>>
    THEN ScoreLoopSkipsUnrated(st, js, k + 1, resume_skills,
                               resume_experience_years, utcnow)
    ELSE ScoreLoopSkipsUnrated(Pass(st, js[k],
                                    LoopBody(st.heap[js[k]], resume_skills,
                                             resume_experience_years, utcnow)),
                               js, k + 1, resume_skills, resume_experience_years,
                               utcnow)

\* the for loop of match_jobs_to_resume from index k on
RECURSIVE ScoreLoop(_, _, _, _, _, _)
ScoreLoop(st, js, k, resume_skills, resume_experience_years, utcnow) ==
    IF k > Len(js) THEN st
    ELSE IF LoopBodyRaises(st.heap[js[k]]) THEN [st EXCEPT !.raised = TRUE]
    ELSE ScoreLoop(Pass(st, js[k],
                        LoopBody(st.heap[js[k]], resume_skills,
                                 resume_experience_years, utcnow)),
                   js, k + 1, resume_skills, resume_experience_years, utcnow)

\* the sort key: x["match_score"]
SortKey(h, o) == h[o]["match_score"].v

\* as SortRank, but x goes in front of the elements with an equal key
SortRankBeforeEqual(h, s, x) ==
    Cardinality({i \in 1..Len(s) : SortKey(h, s[i]) > SortKey(h, x)})

\* Where list.sort(key=..., reverse=True) puts x among the elements s that
\* precede it in the input: behind every element whose key is not smaller
\* (the sort is stable, also with reverse=True)
SortRank(h, s, x) ==
    Cardinality({i \in 1..Len(s) : SortKey(h, s[i]) >= SortKey(h, x)})

\* s with x put behind its first r elements
InsertAt(s, r, x) == SubSeq(s, 1, r) \o <<x>> \o SubSeq(s, r + 1, Len(s))

RECURSIVE SortDesc(_, _, _, _)
SortDesc(h, js, k, sorted) ==
    IF k > Len(js) THEN sorted
    ELSE SortDesc(h, js, k + 1,
                  InsertAt(sorted, SortRank(h, sorted, js[k]), js[k]))

\* scored_jobs.sort(...); return scored_jobs; neither when the loop raised
SortAndReturn(done) ==
    [heap |-> done.heap,
     list |-> IF done.raised THEN <<>>
              ELSE SortDesc(done.heap, done.scored_jobs, 1, <<>>),
     parts |-> done.parts,
     raised |-> done.raised]

\* match_jobs_to_resume(jobs, resume_skills, resume_experience_years):
\* the heap after the call and the returned list (always a new list
\* object), or that the call raised, the dicts scored until then written to
MatchJobsToResume(h, js, resume_skills, resume_experience_years, utcnow) ==
    SortAndReturn(ScoreLoop([heap |-> h, scored_jobs |-> <<>>, parts |-> <<>>,
                             raised |-> FALSE],
                            js, 1, resume_skills, resume_experience_years,
                            utcnow))

----------------------------------------------------------------------------
(* The inputs the calls are made with.  A job dict has the keys the engine  *)
(* reads, as _normalize_adzuna_job writes them: its requirements are the    *)
(* tags _extract_requirements finds in its description.                     *)

MaxJobs == 2

Job(salary_min, salary_max, job_type, description, requirements, location, posted_date) ==
    [salary_min |-> salary_min, salary_max |-> salary_max,
     job_type |-> job_type, description |-> description,
     requirements |-> requirements, location |-> location,
     posted_date |-> posted_date]

\* marks a key that the filters dict does not hold
Absent == [t |-> "absent"]

\* the dict holding the keys of r that are not marked absent
Dict(r) == [k \in {n \in DOMAIN r : r[n] # Absent} |-> r[k]]

\* the defaults of a posting with no optional data
FilterJob1 ==
    Job(NoneV, NoneV, StrV(<<"f","u","l","l","-","t","i","m","e">>),
        StrV(<<>>),
        ListV(<<>>),
        StrV(<<>>),
        StrV(<<"2","0","2","6","-","1","0","-","2","7">>))

\* salary below 60000, one tag
FilterJob2 ==
    Job(IntV(40000), IntV(50000), StrV(<<"F","u","l","l","-","T","i","m","e">>),
        StrV(<<"g","o">>),
        ListV(<<<<"G","o">>>>),
        StrV(<<"R","e","m","o","t","e">>),
        StrV(<<"2","0","2","6","-","1","0","-","2","7">>))

\* salary above 60000, two tags
FilterJob3 ==
    Job(IntV(70000), IntV(90000), StrV(<<"c","o","n","t","r","a","c","t">>),
        StrV(<<"g","o"," ","k","u","b","e","r","n","e","t","e","s">>),
        ListV(<<<<"G","o">>, <<"K","u","b","e","r","n","e","t","e","s">>>>),
        StrV(<<"N","e","w"," ","Y","o","r","k">>),
        StrV(<<"2","0","2","6","-","1","0","-","2","7">>))

\* no lower bound; "django" also holds "go"
FilterJob4 ==
    Job(NoneV, IntV(90000), StrV(<<"c","o","n","t","r","a","c","t">>),
        StrV(<<"d","j","a","n","g","o">>),
        ListV(<<<<"D","j","a","n","g","o">>, <<"G","o">>>>),
        StrV(<<"R","e","m","o","t","e">>),
        StrV(<<"2","0","2","6","-","1","0","-","2","7">>))

\* no upper bound; the tags in the other order
FilterJob5 ==
    Job(IntV(40000), NoneV, StrV(<<"f","u","l","l","-","t","i","m","e">>),
        StrV(<<"g","o"," ","k","u","b","e","r","n","e","t","e","s">>),
        ListV(<<<<"K","u","b","e","r","n","e","t","e","s">>, <<"G","o">>>>),
        StrV(<<>>),
        StrV(<<"2","0","2","6","-","1","0","-","2","7">>))

\* both bounds exactly 60000
FilterJob6 ==
    Job(IntV(60000), IntV(60000), StrV(<<"P","a","r","t","-","T","i","m","e">>),
        StrV(<<>>),
        ListV(<<>>),
        StrV(<<"N","e","w"," ","Y","o","r","k">>),
        StrV(<<"2","0","2","6","-","1","0","-","2","7">>))

FilterJobInputs == {FilterJob1, FilterJob2, FilterJob3, FilterJob4, FilterJob5, FilterJob6}

\* nothing known: no tags, no years, no date, no salary
MatchJob1 ==
    Job(NoneV, NoneV, StrV(<<"f","u","l","l","-","t","i","m","e">>),
        StrV(<<>>),
        ListV(<<>>),
        StrV(<<>>),
        StrV(<<>>))

\* "javascript" also holds "java"; 5+ years; posted 10 days before
MatchJob2 ==
    Job(NoneV, IntV(60000), StrV(<<"f","u","l","l","-","t","i","m","e">>),
        StrV(<<"j","a","v","a","s","c","r","i","p","t"," ","5","+"," ","y","e","a","r","s">>),
        ListV(<<<<"J","a","v","a","s","c","r","i","p","t">>, <<"J","a","v","a">>>>),
        StrV(<<>>),
        StrV(<<"2","0","2","6","-","1","0","-","2","7">>))

\* "10+" holds "0+"; a date that does not parse; salary at the threshold
MatchJob3 ==
    Job(NoneV, IntV(50000), StrV(<<"f","u","l","l","-","t","i","m","e">>),
        StrV(<<"p","y","t","h","o","n"," ","r","e","a","c","t"," ","1","0","+"," ","y","e","a","r","s">>),
        ListV(<<<<"P","y","t","h","o","n">>, <<"R","e","a","c","t">>>>),
        StrV(<<>>),
        StrV(<<"s","o","o","n">>))

\* "15 years" holds "5 years"; posted 10 days ahead
MatchJob4 ==
    Job(NoneV, NoneV, StrV(<<"f","u","l","l","-","t","i","m","e">>),
        StrV(<<"g","o"," ","1","5"," ","y","e","a","r","s">>),
        ListV(<<<<"G","o">>>>),
        StrV(<<>>),
        StrV(<<"2","0","2","6","-","1","1","-","1","6">>))

\* 1 year; an old posting; salary 0
MatchJob5 ==
    Job(NoneV, IntV(0), StrV(<<"f","u","l","l","-","t","i","m","e">>),
        StrV(<<"1"," ","y","e","a","r">>),
        ListV(<<>>),
        StrV(<<>>),
        StrV(<<"2","0","2","0","-","0","1","-","0","1">>))

\* 3 years; a timestamp with Z; a high salary in USD with no lower bound
MatchJob6 ==
    DictSet(Job(NoneV, IntV(90000), StrV(<<"f","u","l","l","-","t","i","m","e">>),
                StrV(<<"p","y","t","h","o","n"," ","3"," ","y","e","a","r","s">>),
                ListV(<<<<"P","y","t","h","o","n">>>>),
                StrV(<<>>),
                StrV(<<"2","0","2","6","-","1","1","-","0","5","T","1","0",":","3","0",":","0","0","Z">>)),
            "salary_currency", StrV(<<"U","S","D">>))

\* month 13 does not parse
MatchJob7 ==
    Job(NoneV, IntV(60000), StrV(<<"f","u","l","l","-","t","i","m","e">>),
        StrV(<<>>),
        ListV(<<>>),
        StrV(<<>>),
        StrV(<<"2","0","2","6","-","1","3","-","0","1">>))

\* the same score as the second kind, from other fields; the same upper
\* salary bound as the sixth kind, in GBP and with a lower bound
MatchJob8 ==
    DictSet(Job(IntV(80000), IntV(90000), StrV(<<"f","u","l","l","-","t","i","m","e">>),
                StrV(<<"J","a","v","a"," ","5","+"," ","Y","e","a","r","s">>),
                ListV(<<<<"J","a","v","a">>>>),
                StrV(<<>>),
                StrV(<<"2","0","2","6","-","1","0","-","2","7">>)),
            "salary_currency", StrV(<<"G","B","P">>))

\* two stated numbers, the larger first; posted at the very time of the call
MatchJob9 ==
    Job(NoneV, IntV(50001), StrV(<<"f","u","l","l","-","t","i","m","e">>),
        StrV(<<"r","e","a","c","t"," ","5","+"," ","y","e","a","r","s"," ","o","r"," ","2"," ","y","e","a","r","s">>),
        ListV(<<<<"R","e","a","c","t">>>>),
        StrV(<<>>),
        StrV(<<"2","0","2","6","-","1","1","-","0","6","T","0","9",":","0","0",":","0","0">>))

MatchJobInputs == {MatchJob1, MatchJob2, MatchJob3, MatchJob4, MatchJob5, MatchJob6, MatchJob7, MatchJob8, MatchJob9}

\* Job dicts with optional fields missing or null.

\* no key at all
SparseJob1 ==
    Dict(Job(Absent, Absent, Absent, Absent, Absent, Absent, Absent))

\* every optional field null
SparseJob2 ==
    Job(NoneV, NoneV, NoneV, NoneV, NoneV, NoneV, NoneV)

\* the job type null; a salary below 60000
SparseJob3 ==
    Job(IntV(40000), IntV(50000), NoneV,
        StrV(<<"g","o">>),
        ListV(<<<<"G","o">>>>),
        StrV(<<"R","e","m","o","t","e">>),
        StrV(<<"2","0","2","6","-","1","0","-","2","7">>))

\* requirements and location null, no posted_date
SparseJob4 ==
    Dict(Job(NoneV, IntV(90000), StrV(<<"c","o","n","t","r","a","c","t">>),
             StrV(<<"g","o">>),
             NoneV,
             NoneV,
             Absent))

\* description and posted_date null, no salary_max
SparseJob5 ==
    Dict(Job(IntV(70000), Absent, StrV(<<"P","a","r","t","-","T","i","m","e">>),
             NoneV,
             ListV(<<<<"G","o">>>>),
             StrV(<<"N","e","w"," ","Y","o","r","k">>),
             NoneV))

SparseJobInputs ==
    {SparseJob1, SparseJob2, SparseJob3, SparseJob4, SparseJob5, FilterJob3}

\* nothing
Description1 == <<>>

\* "javascript" holds "java"; a keyword of two words
Description2 == <<"J","a","v","a","S","c","r","i","p","t",","," ","R","E","S","T"," ","A","P","I">>

\* one keyword
Description3 == <<"g","o">>

\* "django" holds "go", "postgresql" holds "sql"
Description4 == <<"D","j","a","n","g","o"," ","a","n","d"," ","P","o","s","t","g","r","e","S","Q","L">>

\* keywords with signs
Description5 == <<"M","a","c","h","i","n","e"," ","L","e","a","r","n","i","n","g",","," ","C","+","+"," ","o","r"," ","C","#">>

\* "maintain" holds "ai", "github" holds "git"
Description6 == <<"W","e"," ","m","a","i","n","t","a","i","n"," ","G","i","t","H","u","b">>

\* no keyword
Description7 == <<"S","e","n","i","o","r"," ","a","c","c","o","u","n","t","a","n","t">>

DescriptionInputs ==
    {NoneV, StrV(Description1), StrV(Description2), StrV(Description3),
     StrV(Description4), StrV(Description5), StrV(Description6),
     StrV(Description7)}

\* Raw job records of the Adzuna API: each key absent or present
RawJobInputs ==
    {Dict([id |-> a, company |-> b, location |-> c, salary_min |-> d,
           salary_max |-> e, contract_type |-> f, created |-> g,
           description |-> h]) :
        a \in {Absent, StrV(<<"7">>)},
        b \in {Absent, NoneV, DictV(<<>>),
               DictV([display_name |-> StrV(<<"A","c","m","e">>)])},
        c \in {Absent, NoneV,
               DictV([display_name |-> StrV(<<"R","e","m","o","t","e">>)])},
        d \in {Absent, IntV(0)},
        e \in {Absent, IntV(60000)},
        f \in {Absent, StrV(<<"c","o","n","t","r","a","c","t">>)},
        g \in {Absent, StrV(<<"2","0","2","6","-","1","0","-","2","7">>)},
        h \in {Absent, NoneV, StrV(Description2), StrV(Description3)}}

\* Raw records of a response, as the request handlers fetch them: one with
\* no key at all; one whose "javascript" holds "java"; a contract in Go,
\* posted ten days ago; one with the description null.
RawPostingInputs ==
    {Dict([description |-> Absent]),
     [id |-> StrV(<<"7">>),
      company |-> DictV([display_name |-> StrV(<<"A","c","m","e">>)]),
      salary_max |-> IntV(60000),
      description |-> StrV(<<"J","a","v","a","S","c","r","i","p","t">>)],
     [location |-> DictV([display_name |-> StrV(<<"R","e","m","o","t","e">>)]),
      contract_type |-> StrV(<<"c","o","n","t","r","a","c","t">>),
      created |-> StrV(<<"2","0","2","6","-","1","0","-","2","7">>),
      description |-> StrV(Description3)],
     [id |-> StrV(<<"9">>), description |-> NoneV]}

\* the filters dict as the /jobs/search handler builds it: every key, None
\* for a criterion the request leaves out
HandlerFilterInputs ==
    {[min_salary |-> NoneV, max_salary |-> NoneV, job_types |-> NoneV,
      required_skills |-> NoneV, location_keywords |-> NoneV],
     [min_salary |-> NoneV, max_salary |-> NoneV, job_types |-> NoneV,
      required_skills |-> ListV(<<<<"j","a","v","a">>>>), location_keywords |-> NoneV],
     [min_salary |-> IntV(60000), max_salary |-> NoneV,
      job_types |-> ListV(<<<<"C","o","n","t","r","a","c","t">>>>),
      required_skills |-> NoneV, location_keywords |-> NoneV]}

\* the candidate's skills and years of experience
HandlerProfileInputs ==
    {[skills |-> <<<<"G","o">>>>, years |-> 3],
     [skills |-> <<<<"j","a","v","a">>, <<"S","Q","L">>>>, years |-> 0]}

\* how many calls a handler makes on the list it fetched
MaxCalls == 2

MinSalaryInputs ==
    {Absent,
     NoneV,
     IntV(0),
     IntV(60000)}

MaxSalaryInputs ==
    {Absent,
     NoneV,
     IntV(0),
     IntV(60000)}

JobTypesInputs ==
    {Absent,
     ListV(<<>>),
     ListV(<<<<"F","U","L","L","-","T","I","M","E">>, <<"p","a","r","t","-","t","i","m","e">>>>)}

RequiredSkillsInputs ==
    {Absent,
     ListV(<<>>),
     ListV(<<<<"g","o">>>>),
     ListV(<<<<"G","o">>, <<"K","u","b","e","r","n","e","t","e","s">>>>)}

LocationKeywordsInputs ==
    {Absent,
     NoneV,
     ListV(<<<<"y","o","r","k">>>>),
     ListV(<<<<"R","E","M","O","T","E">>, <<"y","o","r","k">>>>)}

SkillInputs ==
    {<<>>,
     <<<<"P","y","t","h","o","n">>>>,
     <<<<"j","a","v","a">>, <<"s","c","r","i","p","t">>, <<"J","a","v","a","S","c","r","i","p","t">>>>,
     <<<<"g","o">>, <<"r","e","a","c","t">>>>}

FilterInputs ==
    {Dict([min_salary |-> a, max_salary |-> b, job_types |-> c,
           required_skills |-> d, location_keywords |-> e]) :
        a \in MinSalaryInputs, b \in MaxSalaryInputs, c \in JobTypesInputs,
        d \in RequiredSkillsInputs, e \in LocationKeywordsInputs}

YearInputs == {0, 3, 5, 12}

\* datetime.utcnow() as [ord, sec]: 2026-11-06 at 09:00:00 and at 12:00:00
NowInputs == {[ord |-> Ordinal(2026, 11, 6), sec |-> 3600 * h] : h \in {9, 12}}

\* the value of now before any call has read the clock
NoClock == [ord |-> 0, sec |-> 0]

\* a caller's list of n job dicts, each its own object
Lists(universe) ==
    UNION {[1..n -> universe] : n \in 0..MaxJobs}

InitWith(universe) ==
    /\ heap \in Lists(universe)
    /\ heap0 = heap
    /\ jobs = [i \in DOMAIN heap |-> i]
    /\ pc = "ready"
    /\ filters = <<>>
    /\ skills = <<>>
    /\ years = 0
    /\ now = NoClock
    /\ ret = <<>>
    /\ retIsArg = FALSE
    /\ parts = <<>>
    /\ first = <<>>
    /\ workers = <<>>
    /\ raw = <<>>
    /\ out = <<>>
    /\ calls = 0

----------------------------------------------------------------------------
(* The calls.  A caller holds a list of job dicts and calls filter_jobs or  *)
(* match_jobs_to_resume on it; the arguments and the returned list are kept *)
(* in the state, heap0 keeps the dicts as they were when the call was made. *)

FilterCall ==
    /\ pc = "ready"
    /\ \E f \in FilterInputs :
         \E r \in {FilterJobs(heap, jobs, f)} :
             /\ filters' = f
             /\ ret' = r.list
             /\ retIsArg' = r.isArg
             /\ pc' = IF r.raised THEN "raised" ELSE "filtered"
    /\ heap0' = heap
    /\ UNCHANGED <<heap, jobs, skills, years, now, parts, first, workers, raw, out, calls>>

MatchCall ==
    /\ pc = "ready"
    /\ \E sk \in SkillInputs, y \in YearInputs, t \in NowInputs :
         \E r \in {MatchJobsToResume(heap, jobs, sk, y, t)} :
             /\ skills' = sk
             /\ years' = y
             /\ now' = t
             /\ heap' = r.heap
             /\ ret' = r.list
             /\ parts' = r.parts
             /\ pc' = IF r.raised THEN "raised" ELSE "matched"
    /\ retIsArg' = FALSE
    /\ heap0' = heap
    /\ UNCHANGED <<jobs, filters, first, workers, raw, out, calls>>

\* the clock does not run backwards
NotBefore(t, u) == t.ord > u.ord \/ (t.ord = u.ord /\ t.sec >= u.sec)

\* A second call of match_jobs_to_resume with the same profile, at the same
\* or a later time: on the same list, whose dicts the first call has written
\* to, or on equal copies of the dicts as they were before the first call.
MatchAgain ==
    /\ pc = "matched"
    /\ \E h \in {heap, heap0}, t \in {u \in NowInputs : NotBefore(u, now)} :
         \E r \in {MatchJobsToResume(h, jobs, skills, years, t)} :
             /\ heap0' = h
             /\ now' = t
             /\ heap' = r.heap
             /\ ret' = r.list
             /\ parts' = r.parts
    /\ first' = [heap |-> heap, list |-> ret, now |-> now]
    /\ pc' = "rematched"
    /\ UNCHANGED <<jobs, filters, skills, years, retIsArg, workers, raw, out, calls>>

\* _normalize_adzuna_job(raw_job), as fetch_jobs_from_adzuna calls it for
\* each record of the response
NormalizeCall ==
    /\ pc = "ready"
    /\ \E r \in RawJobInputs, t \in NowInputs :
         /\ raw' = r
         /\ now' = t
         /\ IF NormalizeRaises(r)
            THEN pc' = "raised" /\ out' = <<>>
            ELSE /\ pc' = "normalized"
                 /\ \E requirements \in ExtractRequirements(Get(r, "description", StrV(<<>>))) :
                      out' = NormalizeAdzunaJob(r, t, requirements)
    /\ UNCHANGED <<heap, heap0, jobs, filters, skills, years, ret, retIsArg,
                   parts, first, workers, calls>>

\* _extract_requirements(description)
ExtractCall ==
    /\ pc = "ready"
    /\ \E d \in DescriptionInputs :
         /\ raw' = d
         /\ IF ExtractRaises(d)
            THEN pc' = "raised" /\ out' = <<>>
            ELSE pc' = "extracted" /\ out' \in ExtractRequirements(d)
    /\ UNCHANGED <<heap, heap0, jobs, filters, skills, years, now, ret,
                   retIsArg, parts, first, workers, calls>>

----------------------------------------------------------------------------
(* A request handler: it fetches a list of jobs, then filters or scores the *)
(* list it holds, which is the list the call before returned.               *)

\* the job dicts [_normalize_adzuna_job(job) for job in jobs] can hold when
\* no call raises: each with one of the lists the extractor can return
NormalizedJobs(results, utcnow) ==
    {l \in [DOMAIN results ->
              UNION {{NormalizeAdzunaJob(r, utcnow, requirements) :
                        requirements \in ExtractRequirements(Get(r, "description", StrV(<<>>)))} :
                     r \in {x \in Elems(results) : ~NormalizeRaises(x)}}] :
        \A i \in DOMAIN results :
            \E requirements \in ExtractRequirements(Get(results[i], "description", StrV(<<>>))) :
                l[i] = NormalizeAdzunaJob(results[i], utcnow, requirements)}

\* the normalization of some record raises, caught at line 79
FetchRaises(results) == \E i \in DOMAIN results : NormalizeRaises(results[i])

\* fetch_jobs_from_adzuna(...): ok says that the credentials are set and
\* that the request succeeded, results is data.get("results", []).  The
\* function returns [] when it is not ok and when a normalization raises.
FetchCall ==
    /\ pc = "ready"
    /\ \E ok \in BOOLEAN, results \in Lists(RawPostingInputs), t \in NowInputs :
         /\ raw' = [ok |-> ok, results |-> results]
         /\ now' = t
         /\ IF ~ok \/ FetchRaises(results)
            THEN heap' = <<>>
            ELSE heap' \in NormalizedJobs(results, t)
    /\ heap0' = heap'
    /\ jobs' = [i \in DOMAIN heap' |-> i]
    /\ ret' = jobs'
    /\ pc' = "fetched"
    /\ UNCHANGED <<filters, skills, years, retIsArg, parts, first, workers, out,
                   calls>>

\* the handler has a list and makes no more than MaxCalls calls on it
Holding == pc \in {"fetched", "filtered", "matched"} /\ calls < MaxCalls

\* filter_jobs on the list the handler holds
FilterNext ==
    /\ Holding
    /\ \E f \in HandlerFilterInputs :
         \E r \in {FilterJobs(heap, ret, f)} :
             /\ filters' = f
             /\ ret' = r.list
             /\ retIsArg' = r.isArg
             /\ pc' = IF r.raised THEN "raised" ELSE "filtered"
    /\ jobs' = ret
    /\ heap0' = heap
    /\ calls' = calls + 1
    /\ UNCHANGED <<heap, skills, years, now, parts, first, workers, raw, out>>

\* match_jobs_to_resume on the list the handler holds
MatchNext ==
    /\ Holding
    /\ \E p \in HandlerProfileInputs, t \in {u \in NowInputs : NotBefore(u, now)} :
         \E r \in {MatchJobsToResume(heap, ret, p.skills, p.years, t)} :
             /\ skills' = p.skills
             /\ years' = p.years
             /\ now' = t
             /\ heap' = r.heap
             /\ ret' = r.list
             /\ parts' = r.parts
             /\ pc' = IF r.raised THEN "raised" ELSE "matched"
    /\ jobs' = ret
    /\ retIsArg' = FALSE
    /\ heap0' = heap
    /\ calls' = calls + 1
    /\ UNCHANGED <<filters, first, workers, raw, out>>

----------------------------------------------------------------------------
(* Two workers calling match_jobs_to_resume on the same list at the same    *)
(* time, each with its own profile.  A worker's local variables are its     *)
(* record in workers; the job dicts are shared.  A step is what a worker    *)
(* does between two accesses to a shared dict key that some call writes:    *)
(* the body up to the write of line 284, the write of line 285 with the     *)
(* append, one call of the sort key (line 289), and the sort and return.    *)

WorkerIds == {1, 2}

ProfileInputs ==
    {[skills |-> <<<<"P","y","t","h","o","n">>>>, years |-> 3],
     [skills |-> <<<<"g","o">>, <<"r","e","a","c","t">>>>, years |-> 12]}

WorkerJobInputs == {MatchJob3, MatchJob4, MatchJob6}

\* the local variables on entry; with no jobs the loop is skipped
NewWorker(profile, n) ==
    [skills |-> profile.skills, years |-> profile.years,
     at |-> IF n = 0 THEN "sort" ELSE "score",
     k |-> 1, matching_skills |-> <<>>, scored_jobs |-> <<>>, keys |-> <<>>,
     ret |-> <<>>]

WorkersStart ==
    /\ pc = "ready"
    /\ \E p, q \in ProfileInputs, t \in NowInputs :
         /\ p # q
         /\ workers' = <<NewWorker(p, Len(jobs)), NewWorker(q, Len(jobs))>>
         /\ now' = t
    /\ pc' = "running"
    /\ heap0' = heap
    /\ UNCHANGED <<heap, jobs, filters, skills, years, ret, retIsArg, parts,
                   first, raw, out, calls>>

\* lines 234-284 for the job at index k: job["match_score"] = round(score, 2)
WriteScore(w) ==
    /\ pc = "running"
    /\ workers[w].at = "score"
    /\ \E b \in {LoopBody(heap[jobs[workers[w].k]], workers[w].skills,
                           workers[w].years, now)} :
         /\ heap' = [heap EXCEPT ![jobs[workers[w].k]] =
                        DictSet(@, "match_score", IntV(Round2(RawScore(b))))]
         /\ workers' = [workers EXCEPT ![w].matching_skills = b.matching_skills,
                                       ![w].at = "skills"]
    /\ UNCHANGED <<heap0, jobs, pc, filters, skills, years, now, ret, retIsArg,
                   parts, first, raw, out, calls>>

\* lines 285-286: job["matching_skills"] = matching_skills;
\* scored_jobs.append(job); then the next job, or the sort after the last
WriteSkills(w) ==
    /\ pc = "running"
    /\ workers[w].at = "skills"
    /\ heap' = [heap EXCEPT ![jobs[workers[w].k]] =
                   DictSet(@, "matching_skills", ListV(workers[w].matching_skills))]
    /\ workers' = [workers EXCEPT
                      ![w].scored_jobs = Append(@, jobs[workers[w].k]),
                      ![w].k = IF @ = Len(jobs) THEN 1 ELSE @ + 1,
                      ![w].at = IF workers[w].k = Len(jobs) THEN "sort" ELSE "score"]
    /\ UNCHANGED <<heap0, jobs, pc, filters, skills, years, now, ret, retIsArg,
                   parts, first, raw, out, calls>>

\* line 289: the sort calls key(x), which reads x["match_score"], once for
\* each element before it compares any
ReadKey(w) ==
    /\ pc = "running"
    /\ workers[w].at = "sort"
    /\ workers[w].k <= Len(workers[w].scored_jobs)
    /\ workers' = [workers EXCEPT
                      ![w].keys = Append(@, SortKey(heap, workers[w].scored_jobs[workers[w].k])),
                      ![w].k = @ + 1]
    /\ UNCHANGED <<heap, heap0, jobs, pc, filters, skills, years, now, ret,
                   retIsArg, parts, first, raw, out, calls>>

\* the keys the sort has read, as x["match_score"] of each element
KeysRead(scored_jobs, keys) ==
    [o \in Elems(scored_jobs) |->
        [match_score |->
            IntV(keys[CHOOSE i \in 1..Len(scored_jobs) : scored_jobs[i] = o])]]

\* lines 289-290: the list is put in the order of the keys read; return
SortReturn(w) ==
    /\ pc = "running"
    /\ workers[w].at = "sort"
    /\ workers[w].k > Len(workers[w].scored_jobs)
    /\ workers' = [workers EXCEPT
                      ![w].ret = SortDesc(KeysRead(workers[w].scored_jobs, workers[w].keys),
                                          workers[w].scored_jobs, 1, <<>>),
                      ![w].at = "done"]
    /\ UNCHANGED <<heap, heap0, jobs, pc, filters, skills, years, now, ret,
                   retIsArg, parts, first, raw, out, calls>>

----------------------------------------------------------------------------
(* Specifications: a caller filtering its list, and a caller scoring it.    *)

InitFilter == InitWith(FilterJobInputs)
NextFilter == FilterCall
SpecFilter == InitFilter /\ [][NextFilter]_vars

InitMatch == InitWith(MatchJobInputs)
NextMatch == MatchCall
SpecMatch == InitMatch /\ [][NextMatch]_vars

\* a caller scoring its list twice; the third kind of job changes its age in
\* whole days between the two clock readings, the others do not
RepeatJobInputs == {MatchJob1, MatchJob2, MatchJob6, MatchJob9}

InitRepeat == InitWith(RepeatJobInputs)
NextRepeat == MatchCall \/ MatchAgain
SpecRepeat == InitRepeat /\ [][NextRepeat]_vars

\* a caller filtering or scoring a list of jobs with optional fields missing
\* or null
InitSparse == InitWith(SparseJobInputs)
NextSparse == FilterCall \/ MatchCall
SpecSparse == InitSparse /\ [][NextSparse]_vars

\* raw records normalized, descriptions scanned for requirements
InitNormalize == InitWith({})
NextNormalize == NormalizeCall \/ ExtractCall
SpecNormalize == InitNormalize /\ [][NextNormalize]_vars

\* two workers scoring one list concurrently
InitWorkers == InitWith(WorkerJobInputs)
NextWorkers ==
    \/ WorkersStart
    \/ \E w \in WorkerIds :
         WriteScore(w) \/ WriteSkills(w) \/ ReadKey(w) \/ SortReturn(w)
SpecWorkers == InitWorkers /\ [][NextWorkers]_vars

\* a request handler fetching a list, then filtering and scoring it
InitHandler == InitWith({})
NextHandler == FetchCall \/ FilterNext \/ MatchNext
SpecHandler == InitHandler /\ [][NextHandler]_vars


----------------------------------------------------------------------------
(* Properties.  They read the state a call leaves behind; what they expect  *)
(* is written out here and not taken from the operators above.              *)

\* the match_score the call left on the i-th returned job, in hundredths
ScoreAt(i) == heap[ret[i]]["match_score"].v

\* the place of object o in the caller's list (each object is in it once)
InputIndex(o) == CHOOSE i \in 1..Len(jobs) : jobs[i] = o

\* C1: the match_score that match_jobs_to_resume assigns to a job lies in
\* the closed range [0, 100], for every job and every candidate profile.
C1_ScoreWithinRange ==
    pc = "matched" =>
        \A i \in 1..Len(ret) : ScoreAt(i) >= 0 /\ ScoreAt(i) <= 100 * 100

\* C2: the list match_jobs_to_resume returns is sorted by match_score in
\* non-increasing order, and jobs with equal match_score keep the relative
\* order they had in the input.
C2_SortedDescendingStable ==
    pc = "matched" =>
        \A a, b \in 1..Len(ret) :
            a < b =>
                /\ ScoreAt(a) >= ScoreAt(b)
                /\ ScoreAt(a) = ScoreAt(b) => InputIndex(ret[a]) < InputIndex(ret[b])

\* two jobs that differ end with equal scores and keep their input order
C2_Witness ==
    /\ pc = "matched"
    /\ Len(ret) = 2
    /\ heap0[1] # heap0[2]
    /\ ScoreAt(1) = ScoreAt(2)
    /\ ret = <<1, 2>>

\* C3: filter_jobs and match_jobs_to_resume never mutate what the caller
\* passed: after the call the caller's list and every job dict in it are as
\* before, and the returned list and the dicts in it are new objects.
C3_InputNeverMutated ==
    pc # "ready" =>
        /\ jobs = [i \in DOMAIN heap0 |-> i]
        /\ \A o \in DOMAIN heap0 : heap[o] = heap0[o]
        /\ ~retIsArg
        /\ \A i \in 1..Len(ret) : ret[i] \notin DOMAIN heap0

\* C3 is refuted by either call; after match_jobs_to_resume the dicts differ.
\* What the claim expects of filtering, written from its words:

FilterKeys ==
    {"min_salary", "max_salary", "job_types", "required_skills",
     "location_keywords"}

\* a criterion is unset when its key is absent, None or an empty list
Unset(f, k) ==
    \/ k \notin DOMAIN f
    \/ f[k].t = "none"
    \/ f[k].t = "list" /\ f[k].v = <<>>

IsSet(f, k) == ~Unset(f, k)

\* no criterion outside K is set
OnlySet(f, K) == \A k \in FilterKeys \ K : Unset(f, k)

\* a is a substring of b, letter case ignored
CiSubstring(a, b) ==
    \E i \in 1..(Len(b) - Len(a) + 1) :
        \A n \in 1..Len(a) : LowerChar(a[n]) = LowerChar(b[i + n - 1])

\* a and b are equal, letter case ignored
CiEqual(a, b) ==
    Len(a) = Len(b) /\ \A n \in 1..Len(a) : LowerChar(a[n]) = LowerChar(b[n])

\* the call kept object o
Kept(o) == \E i \in 1..Len(ret) : ret[i] = o

\* C4: filter_jobs with every criterion unset (key absent, None or empty
\* list) returns the input: the same jobs in the same order, none removed.
C4_UnsetCriteriaIdentity ==
    (pc = "filtered" /\ OnlySet(filters, {})) => ret = jobs

\* two jobs pass a filters dict that holds keys, all of them None or empty
C4_Witness ==
    /\ pc = "filtered"
    /\ OnlySet(filters, {})
    /\ {"min_salary", "job_types", "location_keywords"} \subseteq DOMAIN filters
    /\ Len(jobs) = 2
    /\ ret = jobs

\* the salary rule of the claim: an unknown bound never excludes
MinSalaryRule(j, f) ==
    j["salary_max"].t = "none" \/ j["salary_max"].v >= f["min_salary"].v
MaxSalaryRule(j, f) ==
    j["salary_min"].t = "none" \/ j["salary_min"].v <= f["max_salary"].v

\* C5: with min_salary set a job is kept iff its salary_max is unset or
\* salary_max >= min_salary; with max_salary set a job is kept iff its
\* salary_min is unset or salary_min <= max_salary.
C5_SalaryOptimisticIff ==
    (pc = "filtered" /\ OnlySet(filters, {"min_salary", "max_salary"})) =>
        \A i \in 1..Len(jobs) :
            Kept(jobs[i]) <=>
                /\ IsSet(filters, "min_salary") => MinSalaryRule(heap[jobs[i]], filters)
                /\ IsSet(filters, "max_salary") => MaxSalaryRule(heap[jobs[i]], filters)

\* every required skill is found in some requirement tag of the job
AllSkillsRule(j, f) ==
    \A a \in 1..Len(f["required_skills"].v) :
        \E b \in 1..Len(j["requirements"].v) :
            CiSubstring(f["required_skills"].v[a], j["requirements"].v[b])

\* C6: with only required_skills set, filter_jobs keeps a job iff every
\* required skill is a case-insensitive substring of at least one of the
\* job's requirement tags (ALL-of).
C6_RequiredSkillsAllOf ==
    (pc = "filtered" /\ IsSet(filters, "required_skills")
                     /\ OnlySet(filters, {"required_skills"})) =>
        \A i \in 1..Len(jobs) :
            Kept(jobs[i]) <=> AllSkillsRule(heap[jobs[i]], filters)

\* {"Go", "Kubernetes"} is required: the job tagged Go alone is excluded,
\* the job tagged with both is kept
C6_Witness ==
    /\ pc = "filtered"
    /\ OnlySet(filters, {"required_skills"})
    /\ IsSet(filters, "required_skills")
    /\ Len(filters["required_skills"].v) = 2
    /\ heap = <<FilterJob2, FilterJob3>>
    /\ ret = <<2>>

\* some keyword is found in the job's location
AnyKeywordRule(j, f) ==
    \E a \in 1..Len(f["location_keywords"].v) :
        CiSubstring(f["location_keywords"].v[a], j["location"].v)

\* C7: with only location_keywords set, filter_jobs keeps a job iff at
\* least one keyword is a case-insensitive substring of the job's location
\* (ANY-of).
C7_LocationAnyOf ==
    (pc = "filtered" /\ IsSet(filters, "location_keywords")
                     /\ OnlySet(filters, {"location_keywords"})) =>
        \A i \in 1..Len(jobs) :
            Kept(jobs[i]) <=> AnyKeywordRule(heap[jobs[i]], filters)

\* of the keywords "REMOTE" and "york" only the first is in "Remote": that
\* job is kept, the job with no location is excluded
C7_Witness ==
    /\ pc = "filtered"
    /\ OnlySet(filters, {"location_keywords"})
    /\ IsSet(filters, "location_keywords")
    /\ Len(filters["location_keywords"].v) = 2
    /\ heap = <<FilterJob1, FilterJob2>>
    /\ ret = <<2>>

\* the job's type is one of the criterion's, letter case ignored
JobTypeRule(j, f) ==
    \E a \in 1..Len(f["job_types"].v) :
        CiEqual(j["job_type"].v, f["job_types"].v[a])

\* a job satisfies every predicate whose criterion is set
SatisfiesAllSet(j, f) ==
    /\ IsSet(f, "min_salary") => MinSalaryRule(j, f)
    /\ IsSet(f, "max_salary") => MaxSalaryRule(j, f)
    /\ IsSet(f, "job_types") => JobTypeRule(j, f)
    /\ IsSet(f, "required_skills") => AllSkillsRule(j, f)
    /\ IsSet(f, "location_keywords") => AnyKeywordRule(j, f)

\* C8: for every job list and every criteria value, the result of
\* filter_jobs is exactly the subsequence of the input, in input order, of
\* the jobs that satisfy every predicate whose criterion is set.
C8_SubsequenceOfSatisfying ==
    pc = "filtered" =>
        ret = SelectSeq(jobs, LAMBDA o : SatisfiesAllSet(heap[o], filters))

\* What the claims expect of scoring, stated on the amounts the loop added
\* to score for each job (parts).

\* C9: a job whose posted_date is a string that does not parse as an
\* ISO-8601 timestamp, the empty string included, gets the full 20 recency
\* points.
C9_UnparseableDateFullPoints ==
    pc = "matched" =>
        \A o \in DOMAIN heap :
            ~IsoParses(ReplaceZ(heap0[o]["posted_date"].v)) =>
                REq(parts[o].recency, Rat(20, 1))

\* the decimal numeral of n, 0 <= n <= 99
Numeral(n) ==
    IF n < 10 THEN <<Digits[n + 1]>>
    ELSE <<Digits[(n \div 10) + 1], Digits[(n % 10) + 1]>>

\* p occurs in d
Occurs(p, d) ==
    \E i \in 1..Len(d) :
        /\ i + Len(p) - 1 <= Len(d)
        /\ \A n \in 1..Len(p) : d[i + n - 1] = p[n]

\* the n in 0..19 for which the description states "<n>+", "<n> years" or
\* "<n> year"
StatedYears(d) ==
    {n \in 0..19 :
        \/ Occurs(Numeral(n) \o <<"+">>, d)
        \/ Occurs(Numeral(n) \o <<" ","y","e","a","r","s">>, d)
        \/ Occurs(Numeral(n) \o <<" ","y","e","a","r">>, d)}

\* requiredYears of the claim: the smallest stated n, 0 if there is none
Smallest(S) == IF S = {} THEN 0 ELSE CHOOSE n \in S : \A m \in S : n <= m

ClaimedRequiredYears(d) == Smallest(StatedYears(d))

\* the experience sub-score of the claim
ExperienceGiven(n, y) ==
    IF n = 0 \/ y >= n THEN Rat(30, 1) ELSE Rat(30 * y, n)

ClaimedExperience(j, y) ==
    ExperienceGiven(ClaimedRequiredYears([i \in 1..Len(j["description"].v) |->
                                             LowerChar(j["description"].v[i])]),
                    y)

\* C10: requiredYears is the smallest n in 0..19 such that the lower-cased
\* description contains "<n>+", "<n> years" or "<n> year" (0 if none); the
\* experience sub-score is 30 when requiredYears = 0 or experienceYears >=
\* requiredYears, and 30 * experienceYears / requiredYears otherwise.
C10_ExperienceSubScore ==
    pc = "matched" =>
        \A o \in DOMAIN heap :
            REq(parts[o].experience, ClaimedExperience(heap0[o], years))

\* "5+ years" with 3 years of experience: requiredYears is 5 and the
\* experience sub-score is 30 * 3 / 5 = 18
C10_Witness ==
    /\ pc = "matched"
    /\ years = 3
    /\ heap0 = <<MatchJob2>>
    /\ ClaimedRequiredYears(heap0[1]["description"].v) = 5
    /\ REq(parts[1].experience, Rat(18, 1))

\* the candidate skills found in some requirement tag, letter case ignored
ClaimedMatching(j, sk) ==
    SelectSeq(sk, LAMBDA a : \E b \in 1..Len(j["requirements"].v) :
                                CiSubstring(a, j["requirements"].v[b]))

\* s with its letters in lower case
LowerForm(s) == [n \in 1..Len(s) |-> LowerChar(s[n])]

LowerForms(l) == [n \in 1..Len(l) |-> LowerForm(l[n])]

\* the skill sub-score of the claim, for m matching skills
ClaimedSkillPoints(j, m) ==
    IF Len(j["requirements"].v) >= 1
    THEN Rat(40 * m, Len(j["requirements"].v))
    ELSE Rat(0, 1)

\* every input job is returned, carrying matching_skills m and the skill
\* sub-score the claim derives from it
SkillOutcome(o, m) ==
    /\ Kept(o)
    /\ heap[o]["matching_skills"].v = m
    /\ REq(parts[o].skill, ClaimedSkillPoints(heap0[o], Len(m)))

\* C11 as stated: matching_skills is the collection of candidate skills
\* that are a case-insensitive substring of at least one job requirement;
\* the skill sub-score is 40 * |matching_skills| / |requirements| when the
\* job has a requirement and 0 when it has none (the job is still scored
\* and returned).
C11_MatchingSkillsAsGiven ==
    pc = "matched" =>
        \A o \in DOMAIN heap :
            SkillOutcome(o, ClaimedMatching(heap0[o], skills))

\* C11 as amended: matching_skills holds those candidate skills in lower
\* case, in the order the candidate gave them; the sub-score is as stated.
C11_MatchingSkillsLowerCased ==
    pc = "matched" =>
        \A o \in DOMAIN heap :
            SkillOutcome(o, LowerForms(ClaimedMatching(heap0[o], skills)))

\* requirements {Python, React} and the skill "Python": matching_skills is
\* ["python"] and the sub-score 40 * 1 / 2 = 20
C11_Witness ==
    /\ pc = "matched"
    /\ heap0 = <<MatchJob3>>
    /\ skills = <<<<"P","y","t","h","o","n">>>>
    /\ heap[1]["matching_skills"].v = <<<<"p","y","t","h","o","n">>>>
    /\ REq(parts[1].skill, Rat(20, 1))

\* the two calls returned the same jobs in the same order, each with the
\* same match_score and matching_skills
SameScoredSequence ==
    /\ ret = first.list
    /\ \A o \in DOMAIN heap :
          /\ heap[o]["match_score"] = first.heap[o]["match_score"]
          /\ heap[o]["matching_skills"] = first.heap[o]["matching_skills"]

\* the whole days between the posting of job j and the clock reading t; 0
\* for a job whose posted_date is no timestamp
AgeInDays(j, t) ==
    IF IsoParses(ReplaceZ(j["posted_date"].v))
    THEN DaysBetween(t, FromIso(ReplaceZ(j["posted_date"].v)))
    ELSE 0

\* C12 as stated: two invocations of match_jobs_to_resume with identical
\* job sequences and identical profiles return identical scored sequences,
\* whenever each of them runs and whatever was invoked before.
C12_IdenticalInputsIdenticalOutputs ==
    pc = "rematched" => SameScoredSequence

\* C12 as amended: they return identical scored sequences provided every
\* job's age in whole days is the same at both invocations, whatever was
\* invoked before.
C12_IdenticalWhenSameAges ==
    (pc = "rematched"
        /\ \A o \in DOMAIN heap :
              AgeInDays(heap[o], now) = AgeInDays(heap[o], first.now)) =>
        SameScoredSequence

\* the second call is made three hours later on the dicts the first call
\* wrote to, and gives the same non-empty matching_skills again
C12_Witness ==
    /\ pc = "rematched"
    /\ now # first.now
    /\ Len(ret) = 2
    /\ heap0 = first.heap
    /\ heap[1]["matching_skills"].v # <<>>
    /\ \A o \in DOMAIN heap :
          AgeInDays(heap[o], now) = AgeInDays(heap[o], first.now)
    /\ SameScoredSequence

\* the dicts as a call with worker w's profile, running alone, leaves them
ScoredAlone(w) ==
    MatchJobsToResume(heap0, jobs, workers[w].skills, workers[w].years, now).heap

\* the record o carries match_score and matching_skills as in h
CarriesScoresOf(o, h) ==
    /\ heap[o]["match_score"] = h[o]["match_score"]
    /\ heap[o]["matching_skills"] = h[o]["matching_skills"]

\* every record worker w has returned carries w's own scores
OwnScores(w, h) == \A i \in 1..Len(workers[w].ret) : CarriesScoresOf(workers[w].ret[i], h)

\* C13: when two workers run match_jobs_to_resume concurrently over the same
\* job collection with different profiles, then under every interleaving the
\* records a worker has returned carry the match_score and matching_skills
\* computed from that worker's own profile.
C13_EachWorkerOwnScores ==
    pc = "running" =>
        \A w \in WorkerIds :
            workers[w].at = "done" => OwnScores(w, ScoredAlone(w))

\* C14: filter_jobs and match_jobs_to_resume return a result without
\* raising for every job list whose optional fields are missing or null
\* and every criteria value whose fields are absent, None or empty; on an
\* empty job list both return an empty list.
C14_NeverRaises ==
    /\ pc # "raised"
    /\ (pc \in {"filtered", "matched"} /\ jobs = <<>>) => ret = <<>>

\* What the claims expect of the normalizer and of the extractor.

\* _normalize_adzuna_job has been called: it has read the clock, and it
\* has returned or raised
Normalizing == pc \in {"normalized", "raised"} /\ now # NoClock

\* key k of the raw record is absent or holds a value of type ty
AbsentOrOfType(k, ty) == k \notin DOMAIN raw \/ raw[k].t = ty

\* C15 as stated: normalizing a raw job record that lacks its id surfaces
\* a validation failure to the caller; the missing id is not replaced by a
\* default value in the canonical job.
C15_MissingIdFails ==
    (Normalizing /\ "id" \notin DOMAIN raw) => pc = "raised"

\* C15 as amended: normalizing a raw job record that lacks its id reports
\* no failure for it: the canonical job is returned with the empty string
\* as its id, unless company or location is present and not an object or
\* description is present and not a string, the only cases in which the
\* normalizer fails.
C15_MissingIdDefaulted ==
    (Normalizing /\ "id" \notin DOMAIN raw) =>
        IF /\ AbsentOrOfType("company", "dict")
           /\ AbsentOrOfType("location", "dict")
           /\ AbsentOrOfType("description", "str")
        THEN pc = "normalized" /\ out["id"] = [t |-> "str", v |-> <<>>]
        ELSE pc = "raised"

\* a record with a company and a salary but no id is normalized, its id ""
C15_Witness ==
    /\ pc = "normalized"
    /\ "id" \notin DOMAIN raw
    /\ {"company", "salary_max", "description"} \subseteq DOMAIN raw
    /\ out["id"] = [t |-> "str", v |-> <<>>]
    /\ out["salary_max"] = raw["salary_max"]

\* the first letter of each word in upper case, the others in lower case
TitleCase(s) ==
    [i \in 1..Len(s) |->
        IF i = 1 \/ s[i - 1] = " " THEN UpperChar(s[i]) ELSE LowerChar(s[i])]

\* the vocabulary keywords that occur in the lower-cased description d
KeywordsIn(d) ==
    {TechKeywords[n] : n \in {m \in 1..Len(TechKeywords) :
                                 Occurs(TechKeywords[m], LowerForm(d))}}

\* C18: _extract_requirements returns exactly the title-cased forms of the
\* vocabulary keywords that occur as a substring of the lower-cased
\* description, no tag more than once and no tag outside the vocabulary.
C18_ExtractedTags ==
    pc = "extracted" =>
        /\ \A i, j \in 1..Len(out) : i # j => out[i] # out[j]
        /\ {out[i] : i \in 1..Len(out)} = {TitleCase(kw) : kw \in KeywordsIn(raw.v)}

\* "JavaScript, REST API" gives Javascript, Java and Rest Api
C18_Witness ==
    /\ pc = "extracted"
    /\ raw.v = Description2
    /\ Len(out) = 3
    /\ {out[i] : i \in 1..Len(out)} =
          {<<"J","a","v","a","s","c","r","i","p","t">>,
           <<"J","a","v","a">>,
           <<"R","e","s","t"," ","A","p","i">>}

\* the display name of key k is missing: the enclosing object is absent or
\* null, or holds no display_name
NoDisplayName(k) ==
    \/ k \notin DOMAIN raw
    \/ raw[k].t = "none"
    \/ raw[k].t = "dict" /\ "display_name" \notin DOMAIN raw[k].v

\* the canonical job has the defaults the claim states
DefaultsApplied ==
    /\ NoDisplayName("company") => out["company"] = [t |-> "str", v |-> <<>>]
    /\ NoDisplayName("location") => out["location"] = [t |-> "str", v |-> <<>>]
    /\ "salary_min" \notin DOMAIN raw => out["salary_min"] = [t |-> "none"]
    /\ "salary_max" \notin DOMAIN raw => out["salary_max"] = [t |-> "none"]
    /\ "contract_type" \notin DOMAIN raw =>
          out["job_type"].v = <<"f","u","l","l","-","t","i","m","e">>
    /\ "created" \notin DOMAIN raw =>
          /\ IsoParses(out["posted_date"].v)
          /\ FromIso(out["posted_date"].v) = now
    /\ out["source"].v = <<"a","d","z","u","n","a">>

\* C19: for every raw job record _normalize_adzuna_job applies the stated
\* defaults: a missing company or location display name (the enclosing
\* object missing or null included) becomes the empty string, missing salary
\* bounds become null, an absent job type becomes "full-time", an absent
\* posting date becomes the current timestamp, source is always "adzuna".
C19_DefaultsApplied ==
    (Normalizing /\ AbsentOrOfType("description", "str")) =>
        pc = "normalized" /\ DefaultsApplied

\* 0 <= q <= n for a rational q
Within(q, n) == q.num >= 0 /\ q.num <= n * q.den

\* max(0, 20 - daysOld / 10)
ClaimedRecency(daysOld) ==
    IF daysOld >= 200 THEN Rat(0, 1) ELSE Rat(200 - daysOld, 10)

\* C16: each of the four sub-scores stays within its range: skill overlap
\* in [0, 40], experience fit in [0, 30], recency in [0, 20] (and equal to
\* max(0, 20 - daysOld / 10) on a parseable date, past or future), salary
\* signal in {0, 10}; match_score is their sum rounded to 2 decimals.
C16_SubScoreRanges ==
    pc = "matched" =>
        \A o \in DOMAIN heap :
            /\ Within(parts[o].skill, 40)
            /\ Within(parts[o].experience, 30)
            /\ Within(parts[o].recency, 20)
            /\ IsoParses(ReplaceZ(heap0[o]["posted_date"].v)) =>
                  REq(parts[o].recency, ClaimedRecency(AgeInDays(heap0[o], now)))
            /\ REq(parts[o].salary, Rat(0, 1)) \/ REq(parts[o].salary, Rat(10, 1))
            /\ heap[o]["match_score"].v =
                  Round2(RAdd(RAdd(parts[o].skill, parts[o].experience),
                              RAdd(parts[o].recency, parts[o].salary)))

\* C17: with only a non-empty job_types criterion set, filter_jobs keeps a
\* job iff its job_type equals, letter case ignored, some member of the
\* criterion's job types.
C17_JobTypeMembership ==
    (pc = "filtered" /\ IsSet(filters, "job_types")
                     /\ OnlySet(filters, {"job_types"})) =>
        \A i \in 1..Len(jobs) :
            Kept(jobs[i]) <=> JobTypeRule(heap[jobs[i]], filters)

\* with {"FULL-TIME", "part-time"} the "Full-Time" job is kept and the
\* contract job is excluded
C17_Witness ==
    /\ pc = "filtered"
    /\ IsSet(filters, "job_types")
    /\ OnlySet(filters, {"job_types"})
    /\ heap = <<FilterJob3, FilterJob2>>
    /\ ret = <<2>>

\* the salary sub-score of the claim
ClaimedSalary(j) ==
    IF j["salary_max"].t = "int" /\ j["salary_max"].v > 50000
    THEN Rat(10, 1)
    ELSE Rat(0, 1)

\* C20: the salary sub-score is 10 iff salary_max is present and strictly
\* greater than 50000, and 0 when salary_max is unset, zero or at most
\* 50000, whatever salary_min and the currency are.
C20_SalarySubScore ==
    pc = "matched" =>
        /\ \A o \in DOMAIN heap : REq(parts[o].salary, ClaimedSalary(heap0[o]))
        /\ \A o, q \in DOMAIN heap :
              heap0[o]["salary_max"] = heap0[q]["salary_max"] =>
                  REq(parts[o].salary, parts[q].salary)

\* a salary_max of exactly 50000 gets 0 and one of 50001 gets 10
C20_Witness ==
    /\ pc = "matched"
    /\ heap0 = <<MatchJob3, MatchJob9>>
    /\ heap0[1]["salary_max"].v = 50000
    /\ REq(parts[1].salary, Rat(0, 1))
    /\ heap0[2]["salary_max"].v = 50001
    /\ REq(parts[2].salary, Rat(10, 1))

\* two jobs with the same salary_max, one in USD with no salary_min and one
\* in GBP with a salary_min, both get 10
C20_SameBoundSameScore ==
    /\ pc = "matched"
    /\ heap0 = <<MatchJob6, MatchJob8>>
    /\ heap0[1]["salary_min"] # heap0[2]["salary_min"]
    /\ heap0[1]["salary_currency"] # heap0[2]["salary_currency"]
    /\ REq(parts[1].salary, Rat(10, 1))
    /\ REq(parts[2].salary, Rat(10, 1))

\* What the claims expect of a request handler's list.

\* the tags the extractor gives for description d, as a set
ExtractorTags(d) == {TitleCase(kw) : kw \in KeywordsIn(d)}

\* the handler's last call was filter_jobs or match_jobs_to_resume
Called == pc \in {"filtered", "matched", "raised"} /\ calls > 0

\* C21: whatever sequence of normalize, filter and score operations has
\* run, the requirements of every canonical job are, as a set, what the
\* Requirement Extractor gives for that job's own description, and neither
\* filter_jobs nor match_jobs_to_resume has changed the requirements or the
\* description of a job.
C21_RequirementsFromDescription ==
    \A o \in DOMAIN heap :
        /\ heap[o]["description"].t = "str"
        /\ {heap[o]["requirements"].v[i] : i \in DOMAIN heap[o]["requirements"].v}
              = ExtractorTags(heap[o]["description"].v)
        /\ Called =>
              /\ heap[o]["requirements"] = heap0[o]["requirements"]
              /\ heap[o]["description"] = heap0[o]["description"]

\* a fetched list has been filtered, then scored, and a job with the tags
\* Javascript and Java has got its score
C21_Witness ==
    /\ pc = "matched"
    /\ calls = 2
    /\ filters # <<>>
    /\ \E o \in {ret[i] : i \in DOMAIN ret} :
          /\ "match_score" \in DOMAIN heap[o]
          /\ Len(heap[o]["requirements"].v) = 2
          /\ heap[o]["description"].v = <<"J","a","v","a","S","c","r","i","p","t">>

\* C22: match_jobs_to_resume neither drops nor duplicates a job: the list
\* it returns has the length of its input and holds each input job exactly
\* once, and every job of the returned list carries a match_score and a
\* matching_skills field, also a job with no requirements, no description
\* and no posted date.
C22_OutputIsPermutation ==
    pc = "matched" =>
        /\ Len(ret) = Len(jobs)
        /\ \A i \in DOMAIN jobs :
              Cardinality({k \in DOMAIN ret : ret[k] = jobs[i]}) = 1
        /\ \A k \in DOMAIN ret :
              {"match_score", "matching_skills"} \subseteq DOMAIN heap[ret[k]]

\* a job with no key at all was scored with another job, which was put in
\* front of it in the returned list
C22_Witness ==
    /\ pc = "matched"
    /\ Len(jobs) = 2
    /\ DOMAIN heap0[jobs[1]] = {}
    /\ DOMAIN heap[jobs[1]] = {"match_score", "matching_skills"}
    /\ ret = <<jobs[2], jobs[1]>>

====
